---- MODULE Spec2Model ----
(***************************************************************************)
(* Model of src/quantfin/models/arima.py: the SARIMA grid search           *)
(* (optimize), the stationarity search (seasonality) and the error metric  *)
(* (error).  The statistics library is an oracle: a fit either fails or    *)
(* yields an AIC, adfuller yields a p-value or raises, acf yields a mean   *)
(* autocorrelation or raises.                                              *)
(***************************************************************************)
EXTENDS Integers, Sequences, FiniteSets, TLC

\* ---------------------------------------------------------------- bounds
\* ranges handed to optimize are range(n), n <= MaxOrder + 1
MaxOrder == 1
\* at most MaxCand tuples in the Cartesian product
MaxCand == 4
\* a successful fit has an AIC in 1..MaxAic
MaxAic == 2
\* seasonality: par_range in 0..MaxParRange
MaxParRange == 3
\* adfuller p-values, in units of 0.0001: 0..MaxP
MaxP == 2
\* mean autocorrelations: -MaxAcf..MaxAcf
MaxAcf == 1
\* error: values of the two sequences are in 0..MaxVal
MaxVal == 2
\* error: at most MaxTail points from index WarmUp onward
MaxTail == 2

VARIABLES
    \* ---- optimize: the arguments, shared by the two calls compared
    p, q, ps, qs,       \* the four candidate ranges
    fit,                \* the fitting service: candidate -> Fail or its AIC
    tie_order,          \* the order sort_values leaves equal keys in
    \* ---- optimize: the locals of the call with display = r, r in BOOLEAN
    opt_pc, display_header, iter_done, best_aic, results, result_table,
    opt_ret, opt_exc, printed,
    \* ---- seasonality
    par_range, optimize, sea_pc, bound, iter_pos, d, d_best, p_value_best,
    ds, s, s_best, acf_best, tested, acf_calls, sea_ret, sea_exc,
    \* ---- error
    data, predicted_mean, err_pc, predict_error_ma

opt_vars == <<p, q, ps, qs, fit, tie_order, opt_pc, display_header, iter_done,
              best_aic, results, result_table, opt_ret, opt_exc, printed>>
sea_vars == <<par_range, optimize, sea_pc, bound, iter_pos, d, d_best,
              p_value_best, ds, s, s_best, acf_best, tested, acf_calls,
              sea_ret, sea_exc>>
err_vars == <<data, predicted_mean, err_pc, predict_error_ma>>
vars == <<opt_vars, sea_vars, err_vars>>

\* float("inf"): above every score the oracles yield
FloatInf == 1 + (IF MaxAic > MaxAcf THEN MaxAic ELSE MaxAcf)

\* Python's None
None == <<>>

\* ------------------------------------------------------------------------
\* optimize(series, p, d, q, ps, ds, qs, s, display)
\* ------------------------------------------------------------------------

\* range(n)
Range(n) == [i \in 1..n |-> i - 1]

RangeChoices == {Range(n) : n \in 0..(MaxOrder + 1)}

\* itertools.product(a, b, c, e): the first range is the outermost
product(a, b, c, e) ==
    [k \in 1..(Len(a) * Len(b) * Len(c) * Len(e)) |->
        LET z  == k - 1
            i4 == z % Len(e)
            z3 == z \div Len(e)
            i3 == z3 % Len(c)
            z2 == z3 \div Len(c)
            i2 == z2 % Len(b)
            i1 == z2 \div Len(b)
        IN  <<a[i1 + 1], b[i2 + 1], c[i3 + 1], e[i4 + 1]>>]

\* line 47
parameters_list == product(p, q, ps, qs)

\* line 51
iter_sum == Len(parameters_list)

\* the outcome of a fit that raised
Fail == 0

AicValues == 1..MaxAic

\* the candidates of a list, as a set
Candidates(list) == {list[k] : k \in 1..Len(list)}

\* the two calls compared: display = TRUE and display = FALSE
Runs == BOOLEAN

\* line 73
Improves(aic, best) == aic < best

IsPermutation(f, n) == \A i \in 1..n : \E j \in 1..n : f[j] = i

\* sort_values(by='aic', ascending=True).reset_index(drop=True): the rows in
\* ascending aic; kind defaults to quicksort, which is not stable, so rows of
\* equal aic come out in the order the library build gives them (ord)
sort_values(rows, ord) ==
    LET n == Len(rows)
        before(i, j) == \/ rows[i][2] < rows[j][2]
                        \/ rows[i][2] = rows[j][2] /\ ord[i] < ord[j]
        rank(i) == 1 + Cardinality({j \in 1..n : before(j, i)})
    IN  [k \in 1..n |-> rows[CHOOSE i \in 1..n : rank(i) = k]]

InitOptimizeLocals ==
    /\ opt_pc = [r \in Runs |-> "loop"]
    \* lines 54-55: display_header is assigned only when display is true
    /\ display_header = [r \in Runs |-> IF r THEN "True" ELSE "unbound"]
    /\ iter_done = [r \in Runs |-> 0]
    /\ best_aic = [r \in Runs |-> FloatInf]
    /\ results = [r \in Runs |-> <<>>]
    /\ result_table = [r \in Runs |-> <<>>]
    /\ opt_ret = [r \in Runs |-> None]
    /\ opt_exc = [r \in Runs |-> "none"]
    /\ printed = [r \in Runs |-> 0]

IdleOptimize ==
    /\ p = <<>> /\ q = <<>> /\ ps = <<>> /\ qs = <<>>
    /\ fit = <<>> /\ tie_order = <<>>
    /\ opt_pc = [r \in Runs |-> "idle"]
    /\ display_header = [r \in Runs |-> "unbound"]
    /\ iter_done = [r \in Runs |-> 0]
    /\ best_aic = [r \in Runs |-> FloatInf]
    /\ results = [r \in Runs |-> <<>>]
    /\ result_table = [r \in Runs |-> <<>>]
    /\ opt_ret = [r \in Runs |-> None]
    /\ opt_exc = [r \in Runs |-> "none"]
    /\ printed = [r \in Runs |-> 0]

\* the place of a candidate in parameters_list
PositionOf(param) == CHOOSE k \in 1..iter_sum : parameters_list[k] = param

\* lines 58-61: the header is printed once, two lines
HeaderLines(r) == IF display_header[r] = "True" THEN 2 ELSE 0

\* lines 57-77: one iteration of the loop over parameters_list
optimize_iter(r) ==
    /\ opt_pc[r] = "loop"
    /\ iter_done[r] < iter_sum
    /\ LET param == parameters_list[iter_done[r] + 1]
           aic == fit[param]
       IN  IF display_header[r] = "unbound"
           THEN \* line 58 reads a local that was never assigned
                /\ opt_pc' = [opt_pc EXCEPT ![r] = "raised"]
                /\ opt_exc' = [opt_exc EXCEPT ![r] = "UnboundLocalError"]
                /\ UNCHANGED <<display_header, iter_done, best_aic, results,
                               printed>>
           ELSE /\ display_header' = [display_header EXCEPT ![r] = "False"]
                /\ iter_done' = [iter_done EXCEPT ![r] = @ + 1]
                /\ IF aic = Fail
                   THEN \* lines 68-69: except: continue
                        /\ UNCHANGED <<best_aic, results>>
                        /\ printed' = [printed EXCEPT ![r] = @ + HeaderLines(r)]
                   ELSE /\ best_aic' = [best_aic EXCEPT ![r] =
                              IF Improves(aic, @) THEN aic ELSE @]
                        /\ results' = [results EXCEPT ![r] =
                              Append(@, <<param, aic>>)]
                        /\ printed' = [printed EXCEPT ![r] =
                              @ + HeaderLines(r)
                                + (IF Improves(aic, best_aic[r]) /\ r
                                   THEN 1 ELSE 0)]
                /\ UNCHANGED <<opt_pc, opt_exc>>
    /\ UNCHANGED <<p, q, ps, qs, fit, tie_order, result_table, opt_ret>>
    /\ UNCHANGED <<sea_vars, err_vars>>

\* lines 79-89: the table of the recorded fits, sorted, and its first row
optimize_select(r) ==
    /\ opt_pc[r] = "loop"
    /\ iter_done[r] = iter_sum
    /\ IF results[r] = <<>>
       THEN \* line 80: an empty DataFrame has no two columns to name
            /\ opt_pc' = [opt_pc EXCEPT ![r] = "raised"]
            /\ opt_exc' = [opt_exc EXCEPT ![r] = "ValueError"]
            /\ UNCHANGED <<result_table, opt_ret, printed>>
       ELSE LET ord == [i \in 1..Len(results[r]) |->
                          tie_order[PositionOf(results[r][i][1])]]
                table == sort_values(results[r], ord)
            IN  /\ result_table' = [result_table EXCEPT ![r] = table]
                \* line 84: result_table.parameters[0]
                /\ opt_ret' = [opt_ret EXCEPT ![r] = table[1][1]]
                /\ printed' = [printed EXCEPT ![r] = @ + 1]
                /\ opt_pc' = [opt_pc EXCEPT ![r] = "returned"]
                /\ UNCHANGED opt_exc
    /\ UNCHANGED <<p, q, ps, qs, fit, tie_order, display_header, iter_done,
                   best_aic, results>>
    /\ UNCHANGED <<sea_vars, err_vars>>

InitOptimizeArgs ==
    /\ p \in RangeChoices /\ q \in RangeChoices
    /\ ps \in RangeChoices /\ qs \in RangeChoices
    /\ Len(product(p, q, ps, qs)) <= MaxCand
    /\ fit \in [Candidates(product(p, q, ps, qs)) -> {Fail} \cup AicValues]
    /\ tie_order \in {f \in [1..Len(product(p, q, ps, qs)) ->
                               1..Len(product(p, q, ps, qs))] :
                         IsPermutation(f, Len(product(p, q, ps, qs)))}

\* ------------------------------------------------------------------------
\* seasonality(series, par_range, lags, optimize, graph)
\* ------------------------------------------------------------------------

\* line 100: 0.0001, in the unit the p-values are counted in
PValueThreshold == 1

PValues == 0..MaxP

AcfValues == (0 - MaxAcf)..MaxAcf

\* as if d_best were given a default beside d
BoundAtStartWithDefault == {"d", "d_best"}

\* lines 99-100: the locals assigned before the non-seasonal loop
BoundAtStart == {"d"}

\* as if line 104 compared with >=
AcceptsAtThreshold(best, p_value) == best >= p_value

\* line 104
Accepts(best, p_value) == best > p_value

\* as if line 119 compared with >=
AcfImprovesOnTie(best, acf) == best >= acf

\* line 119
AcfImproves(best, acf) == best > acf

\* as if line 123 compared with >=
SeasonalFlagAtZero(season, flag) == IF season >= 0 THEN 1 ELSE flag

\* lines 123-124
SeasonalFlag(season, flag) == IF season > 0 THEN 1 ELSE flag

IdleSeasonality ==
    /\ par_range = 0 /\ optimize = FALSE /\ sea_pc = "idle"
    /\ bound = {} /\ iter_pos = 0 /\ d = 0 /\ d_best = 0
    /\ p_value_best = 0 /\ ds = 0 /\ s = 0 /\ s_best = 0
    /\ acf_best = 0 /\ tested = <<>> /\ acf_calls = <<>>
    /\ sea_ret = None /\ sea_exc = "none"

InitSeasonalityArgs ==
    /\ par_range \in 0..MaxParRange
    /\ optimize \in BOOLEAN
    /\ sea_pc = "start"
    /\ bound = {} /\ iter_pos = 0 /\ d = 0 /\ d_best = 0
    /\ p_value_best = 0 /\ ds = 0 /\ s = 0 /\ s_best = 0
    /\ acf_best = 0 /\ tested = <<>> /\ acf_calls = <<>>
    /\ sea_ret = None /\ sea_exc = "none"

\* lines 98-100
seasonality_start ==
    /\ sea_pc = "start"
    /\ IF optimize
       THEN /\ d' = 0
            /\ p_value_best' = PValueThreshold
            /\ bound' = BoundAtStart
            /\ sea_pc' = "d_for"
       ELSE \* lines 98 and 112: both searches are skipped
            /\ sea_pc' = "final"
            /\ UNCHANGED <<d, p_value_best, bound>>
    /\ UNCHANGED <<par_range, optimize, iter_pos, d_best, ds, s, s_best,
                   acf_best, tested, acf_calls, sea_ret, sea_exc>>
    /\ UNCHANGED <<opt_vars, err_vars>>

\* lines 101-107: one lag of the non-seasonal search
seasonality_d_iter ==
    /\ sea_pc = "d_for"
    /\ iter_pos < par_range
    /\ d' = iter_pos
    /\ iter_pos' = iter_pos + 1
    /\ \/ \* line 103: adfuller raises
          /\ sea_pc' = "raised"
          /\ sea_exc' = "ValueError"
          /\ UNCHANGED <<tested, p_value_best, d_best, bound>>
       \/ \E p_value \in PValues :
             /\ tested' = Append(tested, <<d', p_value>>)
             /\ IF Accepts(p_value_best, p_value)
                THEN /\ p_value_best' = p_value
                     /\ d_best' = d'
                     /\ bound' = bound \cup {"d_best"}
                     \* line 107: break
                     /\ sea_pc' = "d_assign"
                ELSE UNCHANGED <<p_value_best, d_best, bound, sea_pc>>
             /\ UNCHANGED sea_exc
    /\ UNCHANGED <<par_range, optimize, ds, s, s_best, acf_best, acf_calls,
                   sea_ret>>
    /\ UNCHANGED <<opt_vars, err_vars>>

\* line 101: range(par_range) is exhausted
seasonality_d_exit ==
    /\ sea_pc = "d_for"
    /\ iter_pos >= par_range
    /\ sea_pc' = "d_assign"
    /\ UNCHANGED <<par_range, optimize, bound, iter_pos, d, d_best,
                   p_value_best, ds, s, s_best, acf_best, tested, acf_calls,
                   sea_ret, sea_exc>>
    /\ UNCHANGED <<opt_vars, err_vars>>

\* lines 108-115
seasonality_d_assign ==
    /\ sea_pc = "d_assign"
    /\ IF "d_best" \in bound
       THEN /\ d' = d_best
            /\ ds' = 0
            /\ s_best' = 0
            /\ acf_best' = FloatInf
            /\ bound' = bound \cup {"ds"}
            /\ iter_pos' = 0
            /\ sea_pc' = "s_for"
            /\ UNCHANGED sea_exc
       ELSE \* line 108 reads d_best, which no iteration assigned
            /\ sea_pc' = "raised"
            /\ sea_exc' = "UnboundLocalError"
            /\ UNCHANGED <<d, ds, s_best, acf_best, bound, iter_pos>>
    /\ UNCHANGED <<par_range, optimize, d_best, p_value_best, s, tested,
                   acf_calls, sea_ret>>
    /\ UNCHANGED <<opt_vars, err_vars>>

\* lines 116-121: one lag of the seasonal search
seasonality_s_iter ==
    /\ sea_pc = "s_for"
    /\ iter_pos < par_range
    /\ s' = iter_pos
    /\ iter_pos' = iter_pos + 1
    /\ bound' = bound \cup {"s"}
    /\ \/ \* line 118: acf raises
          /\ sea_pc' = "raised"
          /\ sea_exc' = "ValueError"
          /\ UNCHANGED <<acf_calls, acf_best, s_best>>
       \/ \E acf \in AcfValues :
             /\ acf_calls' = Append(acf_calls, <<d + s', acf>>)
             /\ IF AcfImproves(acf_best, acf)
                THEN /\ acf_best' = acf
                     /\ s_best' = s'
                ELSE UNCHANGED <<acf_best, s_best>>
             /\ UNCHANGED <<sea_pc, sea_exc>>
    /\ UNCHANGED <<par_range, optimize, d, d_best, p_value_best, ds, tested,
                   sea_ret>>
    /\ UNCHANGED <<opt_vars, err_vars>>

\* lines 122-125
seasonality_s_end ==
    /\ sea_pc = "s_for"
    /\ iter_pos >= par_range
    /\ s' = s_best
    /\ ds' = SeasonalFlag(s', ds)
    /\ bound' = bound \cup {"s"}
    /\ sea_pc' = "final"
    /\ UNCHANGED <<par_range, optimize, iter_pos, d, d_best, p_value_best,
                   s_best, acf_best, tested, acf_calls, sea_ret, sea_exc>>
    /\ UNCHANGED <<opt_vars, err_vars>>

\* lines 127-145
seasonality_final ==
    /\ sea_pc = "final"
    /\ \/ \* line 127 reads d and s, assigned only when optimize is true
          /\ ~({"d", "s"} \subseteq bound)
          /\ sea_pc' = "raised"
          /\ sea_exc' = "UnboundLocalError"
          /\ UNCHANGED sea_ret
       \/ \* line 128: adfuller raises; not on a sample it has already tested
          /\ {"d", "s"} \subseteq bound
          /\ \A i \in 1..Len(tested) : tested[i][1] # d + s
          /\ sea_pc' = "raised"
          /\ sea_exc' = "ValueError"
          /\ UNCHANGED sea_ret
       \/ /\ {"d", "s"} \subseteq bound
          /\ sea_ret' = <<d, ds, s>>
          /\ sea_pc' = "returned"
          /\ UNCHANGED sea_exc
    /\ UNCHANGED <<par_range, optimize, bound, iter_pos, d, d_best,
                   p_value_best, ds, s, s_best, acf_best, tested, acf_calls>>
    /\ UNCHANGED <<opt_vars, err_vars>>

\* ------------------------------------------------------------------------
\* error(data, predict, graph)
\* ------------------------------------------------------------------------

\* line 170: the slices [10:]
WarmUp == 10

Values == 0..MaxVal

\* a float: a finite quotient num/den (den > 0), inf or NaN
Finite(n, m) == [kind |-> "num", num |-> n, den |-> m]
Inf == [kind |-> "inf", num |-> 0, den |-> 1]
NaN == [kind |-> "nan", num |-> 0, den |-> 1]

Abs(x) == IF x < 0 THEN 0 - x ELSE x

\* as if the slice were [9:]
ScoredWindowOffByOne(seq) == SubSeq(seq, WarmUp, Len(seq))

\* line 170: seq[10:]
ScoredWindow(seq) == SubSeq(seq, WarmUp + 1, Len(seq))

\* line 170, one point: np.abs(a / b - 1) * 100; x / 0 is inf, 0 / 0 is NaN
PointError(a, b) ==
    IF b = 0
    THEN IF a = 0 THEN NaN ELSE Inf
    ELSE Finite(Abs(a - b) * 100, Abs(b))

\* line 170: the two windows divided point by point
predict_error(actual, predicted) ==
    [i \in 1..Len(ScoredWindow(actual)) |->
        PointError(ScoredWindow(actual)[i], ScoredWindow(predicted)[i])]

RECURSIVE SumFinite(_)
\* the sum of the finite values of a sequence of floats, as a quotient
SumFinite(xs) ==
    IF xs = <<>> THEN Finite(0, 1)
    ELSE LET rest == SumFinite(Tail(xs))
             x == Head(xs)
         IN  IF x.kind = "num"
             THEN Finite(x.num * rest.den + rest.num * x.den, x.den * rest.den)
             ELSE rest

\* line 171: np.mean of a Series is Series.mean(), which skips NaN: NaN when
\* nothing is left, inf when an inf is, the sum over the count otherwise
mean(xs) ==
    LET kept == {i \in 1..Len(xs) : xs[i].kind # "nan"}
        total == SumFinite(xs)
    IN  IF kept = {} THEN NaN
        ELSE IF \E i \in kept : xs[i].kind = "inf" THEN Inf
        ELSE Finite(total.num, total.den * Cardinality(kept))

IdleError ==
    /\ data = <<>> /\ predicted_mean = <<>>
    /\ err_pc = "idle" /\ predict_error_ma = None

\* the two sequences share their index: n points, the first WarmUp of each
\* a repeated value, the rest free
InitErrorArgs ==
    /\ \E n \in 0..(WarmUp + MaxTail) :
       \E hd \in Values, hp \in Values :
       \E td \in [1..(IF n > WarmUp THEN n - WarmUp ELSE 0) -> Values] :
       \E tp \in [1..(IF n > WarmUp THEN n - WarmUp ELSE 0) -> Values] :
          /\ data = [i \in 1..n |-> IF i <= WarmUp THEN hd ELSE td[i - WarmUp]]
          /\ predicted_mean =
                [i \in 1..n |-> IF i <= WarmUp THEN hp ELSE tp[i - WarmUp]]
    /\ err_pc = "start"
    /\ predict_error_ma = None

\* lines 170-180
error ==
    /\ err_pc = "start"
    /\ predict_error_ma' = mean(predict_error(data, predicted_mean))
    /\ err_pc' = "returned"
    /\ UNCHANGED <<data, predicted_mean>>
    /\ UNCHANGED <<opt_vars, sea_vars>>

\* ------------------------------------------------------------------------
\* specifications: one per function, and the three together
\* ------------------------------------------------------------------------

InitOptimize ==
    InitOptimizeArgs /\ InitOptimizeLocals /\ IdleSeasonality /\ IdleError

NextOptimize ==
    \/ \E r \in Runs : optimize_iter(r)
    \/ \E r \in Runs : optimize_select(r)

SpecOptimize == InitOptimize /\ [][NextOptimize]_vars

InitSeasonality == IdleOptimize /\ InitSeasonalityArgs /\ IdleError

NextSeasonality ==
    \/ seasonality_start
    \/ seasonality_d_iter
    \/ seasonality_d_exit
    \/ seasonality_d_assign
    \/ seasonality_s_iter
    \/ seasonality_s_end
    \/ seasonality_final

SpecSeasonality == InitSeasonality /\ [][NextSeasonality]_vars

InitError == IdleOptimize /\ IdleSeasonality /\ InitErrorArgs

NextError == error

SpecError == InitError /\ [][NextError]_vars

Init == InitOptimize \/ InitSeasonality \/ InitError

Next == NextOptimize \/ NextSeasonality \/ NextError

Spec == Init /\ [][Next]_vars

\* ------------------------------------------------------------------------
\* properties of optimize
\* ------------------------------------------------------------------------

OptDone(r) == opt_pc[r] \in {"returned", "raised"}

\* the candidates the fitting service fits
Fitted == {c \in Candidates(parameters_list) : fit[c] # Fail}

\* the rows a call has recorded are the fitted candidates among those it has
\* tried, in enumeration order, each with its AIC
RecordedOnlyFitted(r) ==
    /\ \A i \in 1..Len(results[r]) :
          /\ results[r][i][1] \in Fitted
          /\ results[r][i][2] = fit[results[r][i][1]]
    /\ \A k \in 1..iter_done[r] :
          parameters_list[k] \in Fitted =>
             \E i \in 1..Len(results[r]) : results[r][i][1] = parameters_list[k]

\* the tuple a call returned is a fitted candidate of minimum AIC
ReturnsMinimum(r) ==
    /\ opt_pc[r] = "returned"
    /\ opt_ret[r] \in Fitted
    /\ \A c \in Fitted : fit[opt_ret[r]] <= fit[c]

\* C1: whenever at least one candidate fits, a call of optimize, once over,
\* has returned a fitted candidate whose AIC is <= that of every fitted
\* candidate, and the failed fits have contributed no row
C1_ReturnsMinimumAic ==
    \A r \in Runs :
       (OptDone(r) /\ Fitted # {}) => (ReturnsMinimum(r) /\ RecordedOnlyFitted(r))

\* the call with display = TRUE does select the minimum: what C1 states, for
\* that call alone
MinimumAicWithDisplay ==
    (OptDone(TRUE) /\ Fitted # {}) => (ReturnsMinimum(TRUE) /\ RecordedOnlyFitted(TRUE))

MinimumAicWithDisplayReached ==
    /\ opt_pc[TRUE] = "returned"
    /\ Cardinality(Fitted) >= 2
    /\ Fitted # Candidates(parameters_list)

\* C2: when no candidate fits (the empty product included), a call of
\* optimize ends with the explicit failure "no viable model"
C2_NoViableModel ==
    \A r \in Runs :
       (OptDone(r) /\ Fitted = {}) =>
          (opt_pc[r] = "raised" /\ opt_exc[r] = "NoViableModel")

\* the first candidate, in enumeration order, among those of minimum AIC
FirstOfMinimum ==
    parameters_list[
        CHOOSE k \in 1..iter_sum :
           /\ parameters_list[k] \in Fitted
           /\ \A c \in Fitted : fit[parameters_list[k]] <= fit[c]
           /\ \A j \in 1..(k - 1) :
                 parameters_list[j] \in Fitted =>
                    fit[parameters_list[j]] > fit[parameters_list[k]]]

\* C3: the tuple optimize returns is, among the fitted candidates of minimum
\* AIC, the one that comes first in the enumeration order of the product
C3_FirstAmongTies ==
    \A r \in Runs : opt_pc[r] = "returned" => opt_ret[r] = FirstOfMinimum

\* C4: when the call with display = TRUE has returned a tuple, the call with
\* display = FALSE on the same arguments, once over, has returned the same
C4_DisplayIsCosmetic ==
    (opt_pc[TRUE] = "returned" /\ OptDone(FALSE)) =>
       (opt_pc[FALSE] = "returned" /\ opt_ret[FALSE] = opt_ret[TRUE])

\* ------------------------------------------------------------------------
\* properties of seasonality
\* ------------------------------------------------------------------------

\* C5: a returned triple (d, ds, s) has d >= 0, s >= 0, ds in {0, 1}, and
\* ds = 1 exactly when s > 0
C5_ReturnedTriple ==
    sea_pc = "returned" =>
       /\ sea_ret[1] >= 0
       /\ sea_ret[3] >= 0
       /\ sea_ret[2] \in {0, 1}
       /\ (sea_ret[2] = 1) <=> (sea_ret[3] > 0)

C5_Witness ==
    sea_pc = "returned" /\ sea_ret[3] > 0 /\ sea_ret[2] = 1

\* C6: the non-seasonal search tests the lags 0, 1, 2, ... in order and stops
\* at the first whose p-value is strictly below the threshold: every earlier
\* lag was tested and was not below it, no later lag is tested, and that lag
\* is the d the seasonal search uses and the call returns
C6_FirstAcceptedLag ==
    /\ sea_pc \in {"s_for", "final", "returned"} /\ optimize => "d_best" \in bound
    /\ "d_best" \in bound =>
          /\ d_best \in 0..(par_range - 1)
          /\ Len(tested) = d_best + 1
          /\ \A i \in 1..Len(tested) : tested[i][1] = i - 1
          /\ \A i \in 1..d_best : ~(tested[i][2] < PValueThreshold)
          /\ tested[d_best + 1][2] < PValueThreshold
          /\ sea_pc \in {"s_for", "final", "returned"} => d = d_best
          /\ sea_pc = "returned" => sea_ret[1] = d_best

C6_Witness ==
    /\ sea_pc = "returned"
    /\ sea_ret[1] = 1
    /\ tested[1][2] = PValueThreshold
    /\ par_range > 2

\* the mean autocorrelation the seasonal search saw at seasonal lag j
AcfAt(j) == acf_calls[j + 1][2]

SearchExhausted ==
    /\ optimize
    /\ Len(tested) = par_range
    /\ \A i \in 1..Len(tested) : ~(tested[i][2] < PValueThreshold)

\* C10: with optimize true, when no lag of 0..par_range-1 has a p-value below
\* the threshold, d_best is never assigned, the seasonal search never starts,
\* nothing is returned, and the call can only end in the error of line 108
C10_NoAcceptedLagRaises ==
    SearchExhausted =>
       /\ "d_best" \notin bound
       /\ sea_pc \in {"start", "d_for", "d_assign", "raised"}
       /\ sea_pc = "raised" => sea_exc = "UnboundLocalError"
       /\ acf_calls = <<>>
       /\ sea_ret = None

C10_Witness ==
    /\ SearchExhausted
    /\ par_range > 1
    /\ sea_pc = "raised"
    /\ sea_exc = "UnboundLocalError"

\* ------------------------------------------------------------------------
\* properties of error
\* ------------------------------------------------------------------------

\* the indexes of the scored window
Scored == (WarmUp + 1)..Len(data)

PredictedEqualsActual == \A i \in Scored : predicted_mean[i] = data[i]

IsZero(x) == x.kind = "num" /\ x.num = 0

\* C8: when a predicted value of the scored window is zero, error ends in a
\* reported failure and returns no value
C8_DegenerateErrorReported ==
    (err_pc \notin {"idle", "start"} /\ \E i \in Scored : predicted_mean[i] = 0) =>
       err_pc = "raised"

\* C9 as stated: when predicted equals actual at every point from index 10
\* onward, error returns exactly 0, whatever the length of the sequences
C9_ExactZeroAnyLength ==
    (err_pc = "returned" /\ PredictedEqualsActual) => IsZero(predict_error_ma)

\* C9, amended: when the sequences have a point from index 10 onward and at
\* every such point predicted equals actual and is not zero, error returns
\* exactly 0, whatever the first 10 points hold
C9_ExactZero ==
    (/\ err_pc = "returned"
     /\ Scored # {}
     /\ PredictedEqualsActual
     /\ \A i \in Scored : predicted_mean[i] # 0) => IsZero(predict_error_ma)

C9_Witness ==
    /\ err_pc = "returned"
    /\ PredictedEqualsActual
    /\ Len(data) = WarmUp + 2
    /\ \A i \in Scored : predicted_mean[i] # 0
    /\ data[WarmUp + 1] # data[WarmUp + 2]
    /\ data[1] # predicted_mean[1]
    /\ predicted_mean[1] = 0
    /\ IsZero(predict_error_ma)

====
